---- MODULE Spec2Model ----
(***************************************************************************)
(* Model of SchemaInferenceAgent (schema_inference_agent.py): the schema   *)
(* inferrer (_infer_json_schema / infer_type), the schema differ           *)
(* (_compare_schemas / compare_recursive) and the batch loop               *)
(* (process_test_cases).                                                   *)
(*                                                                         *)
(* Python objects are records [k, n, s, c]: k is type(x).__name__, n the   *)
(* number of an int / bool (0, 1) / float (in halves, so 5 is 2.5), s the  *)
(* text of a str, c the elements of a list or the entries [key, val] of a  *)
(* dict in insertion order.                                                *)
(***************************************************************************)
EXTENDS Integers, Sequences, FiniteSets, TLC

VARIABLES
    mode,               \* which entry point this behaviour exercises
    json_data,          \* argument of _infer_json_schema
    infer_out,          \* value returned by _infer_json_schema
    inferred_schema,    \* first argument of _compare_schemas
    expected_schema,    \* second argument of _compare_schemas
    differences,        \* the list _compare_schemas accumulates
    stack,              \* active compare_recursive calls, innermost last
    cmp_pc,             \* "idle", "running", "returned", "raised"
    comparison,         \* value returned by _compare_schemas
    previous,           \* differences of the previous run on the pair
    test_cases,         \* the list process_test_cases loads
    idx,                \* position of the batch loop (1-based)
    results,            \* the list process_test_cases accumulates
    result,             \* the result dict of the current test case
    batch_pc            \* "idle", "loop", "comparing", "returned", "raised"

vars == <<mode, json_data, infer_out, inferred_schema, expected_schema,
          differences, stack, cmp_pc, comparison, previous,
          test_cases, idx, results, result, batch_pc>>

inferVars == <<json_data, infer_out>>
cmpVars == <<inferred_schema, expected_schema, differences, stack, cmp_pc,
             comparison, previous>>
batchVars == <<test_cases, idx, results, result, batch_pc>>

---------------------------------------------------------------------------
(* Bounds of the explored inputs.                                          *)

\* longest list in the JSON inputs of the inferrer
MaxLen == 2
\* largest integer in the JSON inputs
MaxInt == 2
\* longest batch of test cases
MaxBatch == 2
\* most properties of an object schema
MaxProps == 2

---------------------------------------------------------------------------
(* Python values.                                                          *)

PyNone == [k |-> "NoneType", n |-> 0, s |-> "", c |-> <<>>]
PyBool(b) == [k |-> "bool", n |-> IF b THEN 1 ELSE 0, s |-> "", c |-> <<>>]
PyInt(i) == [k |-> "int", n |-> i, s |-> "", c |-> <<>>]
PyFloat(halves) == [k |-> "float", n |-> halves, s |-> "", c |-> <<>>]
PyStr(t) == [k |-> "str", n |-> 0, s |-> t, c |-> <<>>]
PyList(elems) == [k |-> "list", n |-> 0, s |-> "", c |-> elems]
PyDict(entries) == [k |-> "dict", n |-> 0, s |-> "", c |-> entries]
\* a Python object of a type json never produces
PyTuple == [k |-> "tuple", n |-> 0, s |-> "", c |-> <<>>]
Entry(key, val) == [key |-> key, val |-> val]

\* isinstance(x, dict)
IsDict(x) == x.k = "dict"

\* key in d
Has(d, key) == \E i \in 1..Len(d.c) : d.c[i].key = key

\* d[key], for a key that is in d
Get(d, key) == d.c[CHOOSE i \in 1..Len(d.c) : d.c[i].key = key].val

\* d.get(key, default)
GetOr(d, key, default) == IF Has(d, key) THEN Get(d, key) ELSE default

\* set(d.keys())
KeySet(d) == {d.c[i].key : i \in 1..Len(d.c)}

\* bool(x): the falsy values are None, False, 0, 0.0, "", [], {}
Truthy(x) ==
    CASE x.k = "NoneType" -> FALSE
      [] x.k \in {"bool", "int", "float"} -> x.n # 0
      [] x.k = "str" -> x.s # ""
      [] x.k \in {"list", "dict"} -> Len(x.c) > 0
      [] OTHER -> TRUE

---------------------------------------------------------------------------
(* Text helpers.                                                           *)

Char(t, i) == SubSeq(t, i, i)

Digits == "0123456789"
UpperCase == "ABCDEFGHIJKLMNOPQRSTUVWXYZ"
LowerCase == "abcdefghijklmnopqrstuvwxyz"

IsDigit(ch) == \E i \in 1..Len(Digits) : Char(Digits, i) = ch
DigitVal(ch) == (CHOOSE i \in 1..Len(Digits) : Char(Digits, i) = ch) - 1

\* every character of t[from..to] is a digit, and the range lies in t
AllDigits(t, from, to) ==
    /\ to <= Len(t)
    /\ \A i \in from..to : IsDigit(Char(t, i))

\* "@" in value
Contains(t, ch) == \E i \in 1..Len(t) : Char(t, i) = ch

LowerChar(ch) ==
    IF \E i \in 1..Len(UpperCase) : Char(UpperCase, i) = ch
    THEN Char(LowerCase, CHOOSE i \in 1..Len(UpperCase) : Char(UpperCase, i) = ch)
    ELSE ch

\* str.lower()
RECURSIVE Lower(_)
Lower(t) == IF t = "" THEN "" ELSE LowerChar(Head(t)) \o Lower(Tail(t))

\* re.match(r'\d{a}<sep>\d{b}<sep>\d{c}', t): anchored at the start only
MatchDate(t, a, b, c, sep) ==
    /\ Len(t) >= a + b + c + 2
    /\ AllDigits(t, 1, a)
    /\ Char(t, a + 1) = sep
    /\ AllDigits(t, a + 2, a + b + 1)
    /\ Char(t, a + b + 2) = sep
    /\ AllDigits(t, a + b + 3, a + b + c + 2)

_is_date_format(value) ==
    \/ MatchDate(value, 4, 2, 2, "-")
    \/ MatchDate(value, 2, 2, 4, "/")
    \/ MatchDate(value, 2, 2, 4, "-")

_get_json_type(python_type) ==
    CASE python_type = "str" -> "string"
      [] python_type = "int" -> "integer"
      [] python_type = "float" -> "number"
      [] python_type = "bool" -> "boolean"
      [] python_type = "NoneType" -> "null"
      [] python_type = "list" -> "array"
      [] python_type = "dict" -> "object"
      [] OTHER -> "string"

---------------------------------------------------------------------------
(* json.loads and json.dumps.                                              *)

\* an exception travelling up the call chain
Raise(name) == [k |-> "raise", n |-> 0, s |-> name, c |-> <<>>]
IsRaise(x) == x.k = "raise"

\* json.dumps(schema, indent=2): the text is kept as the document it spells
JsonDumps(schema) == [k |-> "jsontext", n |-> 0, s |-> "", c |-> <<schema>>]

RECURSIVE NatVal(_)
NatVal(t) ==
    IF t = "" THEN 0
    ELSE NatVal(SubSeq(t, 1, Len(t) - 1)) * 10 + DigitVal(Char(t, Len(t)))

\* JSON's int: 0 | [1-9][0-9]*
IsNatLiteral(t) ==
    /\ Len(t) >= 1
    /\ AllDigits(t, 1, Len(t))
    /\ (Len(t) = 1 \/ Head(t) # "0")

\* JSON's int '.' one digit 0 or 5: the floats the inputs spell
IsHalfLiteral(t) ==
    /\ Len(t) >= 3
    /\ IsNatLiteral(SubSeq(t, 1, Len(t) - 2))
    /\ Char(t, Len(t) - 1) = "."
    /\ Char(t, Len(t)) \in {"0", "5"}

HalfVal(t) ==
    2 * NatVal(SubSeq(t, 1, Len(t) - 2)) + (IF Char(t, Len(t)) = "5" THEN 1 ELSE 0)

\* json.loads of a text without quotes, brackets, braces, blanks or exponents:
\* a literal, a number, or a JSONDecodeError
ParseScalar(t) ==
    CASE t = "null" -> PyNone
      [] t = "true" -> PyBool(TRUE)
      [] t = "false" -> PyBool(FALSE)
      [] IsNatLiteral(t) -> PyInt(NatVal(t))
      [] Len(t) >= 2 /\ Head(t) = "-" /\ IsNatLiteral(Tail(t)) -> PyInt(0 - NatVal(Tail(t)))
      [] IsHalfLiteral(t) -> PyFloat(HalfVal(t))
      [] Len(t) >= 4 /\ Head(t) = "-" /\ IsHalfLiteral(Tail(t)) -> PyFloat(0 - HalfVal(Tail(t)))
      [] OTHER -> Raise("JSONDecodeError")

\* json.loads(text)
JsonLoads(text) ==
    CASE text.k = "jsontext" -> text.c[1]
      [] text.k = "str" -> ParseScalar(text.s)
      [] OTHER -> Raise("TypeError")

---------------------------------------------------------------------------
(* _infer_json_schema.                                                     *)

\* isinstance(x, (int, float)): bool is a subclass of int
IsIntOrFloat(x) == x.k \in {"int", "float", "bool"}

\* isinstance(x, int)
IsIntInstance(x) == x.k \in {"int", "bool"}

\* the value a number hashes and compares by, in halves: True == 1 == 1.0
NumKey(x) == IF x.k = "float" THEN x.n ELSE 2 * x.n

\* len(value) == len(set(value)), for a list of numbers
AllDistinct(value) ==
    Cardinality({NumKey(value.c[i]) : i \in 1..Len(value.c)}) = Len(value.c)

TypeNode(t) == PyDict(<<Entry("type", PyStr(t))>>)

\* the string branch of infer_type
InferString(value, field_name) ==
    IF Lower(field_name) = "email" \/ Contains(value.s, "@")
    THEN PyDict(<<Entry("type", PyStr("string")), Entry("format", PyStr("email"))>>)
    ELSE IF Lower(field_name) = "date" \/ _is_date_format(value.s)
    THEN PyDict(<<Entry("type", PyStr("string")), Entry("format", PyStr("date"))>>)
    ELSE TypeNode("string")

\* the scalar branches of infer_type, in the order the code tests them
InferScalar(value, field_name) ==
    IF value.k = "str" THEN InferString(value, field_name)
    ELSE IF value.k = "bool" THEN TypeNode("boolean")
    ELSE IF IsIntInstance(value) THEN TypeNode("integer")
    ELSE IF value.k = "float" THEN TypeNode("number")
    ELSE IF value.k = "NoneType" THEN TypeNode("null")
    ELSE Raise("ValueError")

\* the items.oneOf node of an array of several types
MixedArray(value) ==
    PyDict(<<Entry("type", PyStr("array")),
             Entry("items", PyDict(<<Entry("oneOf",
                 PyList([i \in 1..Len(value.c) |->
                            TypeNode(_get_json_type(value.c[i].k))]))>>))>>)

\* the array node of a list of one type, given the first element's schema
UniformArray(value, item_schema) ==
    IF \A i \in 1..Len(value.c) : IsIntOrFloat(value.c[i])
    THEN PyDict(<<Entry("type", PyStr("array")),
                  Entry("items", item_schema),
                  Entry("minItems", PyInt(1)),
                  Entry("maxItems", PyInt(10)),
                  Entry("uniqueItems", PyBool(AllDistinct(value)))>>)
    ELSE PyDict(<<Entry("type", PyStr("array")), Entry("items", item_schema)>>)

RECURSIVE infer_type(_, _)
infer_type(value, field_name) ==
    IF value.k = "dict" THEN
        LET props == [i \in 1..Len(value.c) |->
                         Entry(value.c[i].key, infer_type(value.c[i].val, value.c[i].key))]
            required == [i \in 1..Len(value.c) |-> PyStr(value.c[i].key)]
        IN  IF \E i \in 1..Len(props) : IsRaise(props[i].val)
            THEN Raise("ValueError")
            ELSE PyDict(<<Entry("type", PyStr("object")),
                          Entry("properties", PyDict(props)),
                          Entry("required", PyList(required))>>)
    ELSE IF value.k = "list" THEN
        IF Len(value.c) = 0
        THEN PyDict(<<Entry("type", PyStr("array")), Entry("items", PyDict(<<>>))>>)
        ELSE IF Cardinality({value.c[i].k : i \in 1..Len(value.c)}) > 1
        THEN MixedArray(value)
        ELSE LET item_schema == infer_type(value.c[1], "")
             IN  IF IsRaise(item_schema) THEN item_schema
                 ELSE UniformArray(value, item_schema)
    ELSE InferScalar(value, field_name)

DraftId == "http://json-schema.org/draft-07/schema#"

\* schema["$schema"] = ...: the key is new, so it is appended
SetSchemaKey(schema) == PyDict(Append(schema.c, Entry("$schema", PyStr(DraftId))))

ErrorText == PyStr("Error inferring schema: ")

_infer_json_schema(data_in) ==
    LET data == IF data_in.k = "str" THEN JsonLoads(data_in) ELSE data_in
        schema == IF IsRaise(data) THEN data ELSE infer_type(data, "")
    IN  IF IsRaise(schema) THEN ErrorText
        ELSE JsonDumps(SetSchemaKey(schema))

---------------------------------------------------------------------------
(* Inputs of the inferrer: parsed JSON documents, the texts a caller may   *)
(* pass instead, and one object that is no JSON value.                     *)

\* a variable that holds nothing yet
Idle == [k |-> "idle", n |-> 0, s |-> "", c |-> <<>>]
\* no run of _compare_schemas came before
NoPrevious == <<Idle>>

Keys == {"a", "Email"}
Texts == {"a", "a@b", "2020-01-01"}
\* str arguments that spell a JSON document
JsonTexts == {"7", "null", "true", "2.5"}

Leaves ==
    {PyNone, PyBool(TRUE), PyBool(FALSE), PyFloat(2), PyFloat(5)}
        \cup {PyInt(i) : i \in 1..MaxInt}
        \cup {PyStr(t) : t \in Texts}

\* lists of at most MaxLen elements of S
ListsOf(S) ==
    {PyList(elems) : elems \in UNION {[1..len -> S] : len \in 0..MaxLen}}

\* dicts of at most two entries with values of S, in both insertion orders
DictsOf(S) ==
    {PyDict(<<>>)}
        \cup {PyDict(<<Entry(key, v)>>) : key \in Keys, v \in S}
        \cup UNION {{PyDict(<<Entry(k1, v1), Entry(k2, v2)>>) :
                         k2 \in Keys \ {k1}, v1 \in S, v2 \in S} : k1 \in Keys}

Level1 == Leaves \cup ListsOf(Leaves) \cup DictsOf(Leaves)

\* containers that nested lists and dicts hold
Nested ==
    {PyList(<<>>), PyList(<<PyInt(1), PyFloat(2)>>), PyList(<<PyBool(TRUE)>>),
     PyDict(<<Entry("a", PyInt(1))>>), PyDict(<<Entry("Email", PyStr("a"))>>)}

Level2 == ListsOf(Nested) \cup DictsOf(Nested)

JsonValues == Level1 \cup Level2

InferInputs == JsonValues \cup {PyStr(t) : t \in JsonTexts} \cup {PyTuple, PyList(<<PyTuple>>)}

InitInfer ==
    /\ mode = "infer"
    /\ json_data \in InferInputs
    /\ infer_out = Idle
    /\ inferred_schema = Idle /\ expected_schema = Idle
    /\ differences = <<>> /\ stack = <<>> /\ cmp_pc = "idle"
    /\ comparison = Idle /\ previous = NoPrevious
    /\ test_cases = <<>> /\ idx = 0 /\ results = <<>> /\ result = Idle
    /\ batch_pc = "idle"

\* a call of _infer_json_schema(json_data)
InferJsonSchema ==
    /\ mode = "infer"
    /\ infer_out = Idle
    /\ infer_out' = _infer_json_schema(json_data)
    /\ UNCHANGED <<mode, json_data>>
    /\ UNCHANGED cmpVars
    /\ UNCHANGED batchVars

NextInfer == InferJsonSchema

SpecInfer == InitInfer /\ [][NextInfer]_vars

---------------------------------------------------------------------------
(* Claims about the inferrer.                                              *)

JsonKinds == {"NoneType", "bool", "int", "float", "str", "list", "dict"}

\* value is a parsed JSON document
RECURSIVE IsJsonValue(_)
IsJsonValue(value) ==
    /\ value.k \in JsonKinds
    /\ value.k = "list" => \A i \in 1..Len(value.c) : IsJsonValue(value.c[i])
    /\ value.k = "dict" => \A i \in 1..Len(value.c) : IsJsonValue(value.c[i].val)

\* the schema type the specification fixes for each kind of JSON value
KindType(kind) ==
    CASE kind = "NoneType" -> "null"
      [] kind = "bool" -> "boolean"
      [] kind = "int" -> "integer"
      [] kind = "float" -> "number"
      [] kind = "str" -> "string"
      [] kind = "list" -> "array"
      [] kind = "dict" -> "object"

\* the inference has returned a schema document
InferReturned == mode = "infer" /\ infer_out # Idle
InferredDoc == infer_out.c[1]

\* the (value, node) pairs of an inferred schema: the document, each property
\* value with its node, and the first element of a one-type list with the
\* items node
RECURSIVE InferredPairs(_, _)
InferredPairs(value, node) ==
    {<<value, node>>}
        \cup (IF value.k = "dict"
              THEN UNION {InferredPairs(value.c[i].val,
                                        Get(Get(node, "properties"), value.c[i].key)) :
                             i \in 1..Len(value.c)}
              ELSE {})
        \cup (IF value.k = "list" /\ Len(value.c) > 0 /\ ~Has(Get(node, "items"), "oneOf")
              THEN InferredPairs(value.c[1], Get(node, "items"))
              ELSE {})

\* the alternatives of a several-type list carry the types of its elements
OneOfTypesRight(value, node) ==
    (value.k = "list" /\ Has(node, "items") /\ Has(Get(node, "items"), "oneOf")) =>
        LET alts == Get(Get(node, "items"), "oneOf").c
        IN  /\ Len(alts) = Len(value.c)
            /\ \A i \in 1..Len(alts) :
                   GetOr(alts[i], "type", PyNone) = PyStr(KindType(value.c[i].k))

\* C2: every JSON value, top-level or nested, is inferred with the type its
\* kind maps to (null, boolean, integer, number, string, array, object).
C2_TypeMapping ==
    (InferReturned /\ IsJsonValue(json_data)) =>
        /\ infer_out.k = "jsontext"
        /\ \A p \in InferredPairs(json_data, InferredDoc) :
               /\ GetOr(p[2], "type", PyNone) = PyStr(KindType(p[1].k))
               /\ OneOfTypesRight(p[1], p[2])

\* an array whose elements are all integers or floating-point numbers
IsNumericArray(value) ==
    /\ value.k = "list"
    /\ Len(value.c) > 0
    /\ \A i \in 1..Len(value.c) : value.c[i].k \in {"int", "float"}

HasArrayConstraint(node) ==
    Has(node, "minItems") \/ Has(node, "maxItems") \/ Has(node, "uniqueItems")

\* C3: a non-empty array of numbers, integers and floats in any mix, is
\* inferred with minItems = 1, maxItems = 10 and uniqueItems true iff its
\* elements are pairwise distinct.
C3_NumericArrayConstraints ==
    (InferReturned /\ IsJsonValue(json_data) /\ infer_out.k = "jsontext") =>
        \A p \in InferredPairs(json_data, InferredDoc) :
            IsNumericArray(p[1]) =>
                /\ GetOr(p[2], "minItems", PyNone) = PyInt(1)
                /\ GetOr(p[2], "maxItems", PyNone) = PyInt(10)
                /\ GetOr(p[2], "uniqueItems", PyNone) = PyBool(AllDistinct(p[1]))

\* C4: an inferred array node carries minItems, maxItems or uniqueItems only
\* if every element of its array is an integer or a float; booleans do not
\* count as integers.
C4_ConstraintsOnlyOnNumbers ==
    (InferReturned /\ IsJsonValue(json_data) /\ infer_out.k = "jsontext") =>
        \A p \in InferredPairs(json_data, InferredDoc) :
            (p[1].k = "list" /\ HasArrayConstraint(p[2])) => IsNumericArray(p[1])

---------------------------------------------------------------------------
(* Python operations _compare_schemas applies to whatever it is handed.    *)

\* a == b
RECURSIVE PyEq(_, _)
PyEq(a, b) ==
    IF IsIntOrFloat(a) /\ IsIntOrFloat(b) THEN NumKey(a) = NumKey(b)
    ELSE IF a.k # b.k THEN FALSE
    ELSE IF a.k = "str" THEN a.s = b.s
    ELSE IF a.k = "list" THEN
        /\ Len(a.c) = Len(b.c)
        /\ \A i \in 1..Len(a.c) : PyEq(a.c[i], b.c[i])
    ELSE IF a.k = "dict" THEN
        /\ KeySet(a) = KeySet(b)
        /\ \A key \in KeySet(a) : PyEq(Get(a, key), Get(b, key))
    ELSE TRUE

\* t occurs in text
IsSubstring(t, text) ==
    \E i \in 1..(Len(text) - Len(t) + 1) : SubSeq(text, i, i + Len(t) - 1) = t

\* "key in x" raises TypeError unless x is a container or a str
InRaises(x) == x.k \notin {"dict", "list", "str", "tuple"}

\* membership that looks among a dict's values instead of its keys
PyInValues(key, x) ==
    CASE x.k = "dict" -> \E i \in 1..Len(x.c) : x.c[i].val = PyStr(key)
      [] x.k = "list" -> \E i \in 1..Len(x.c) : x.c[i] = PyStr(key)
      [] x.k = "str" -> IsSubstring(key, x.s)
      [] OTHER -> FALSE

\* key in x, for a str key: a key of a dict, an element of a list, a
\* substring of a str
PyIn(key, x) ==
    CASE x.k = "dict" -> Has(x, key)
      [] x.k = "list" -> \E i \in 1..Len(x.c) : x.c[i] = PyStr(key)
      [] x.k = "str" -> IsSubstring(key, x.s)
      [] OTHER -> FALSE

\* hash(x) raises TypeError
Unhashable(x) == x.k \in {"list", "dict"}

\* set(x) raises TypeError: x is not iterable, or holds an unhashable element
SetRaises(x) ==
    \/ x.k \notin {"dict", "list", "str", "tuple"}
    \/ x.k = "list" /\ \E i \in 1..Len(x.c) : Unhashable(x.c[i])

\* set(x): the elements of a list, the keys of a dict, the characters of a str
PySet(x) ==
    CASE x.k = "list" -> {x.c[i] : i \in 1..Len(x.c)}
      [] x.k = "dict" -> {PyStr(key) : key \in KeySet(x)}
      [] x.k = "str" -> {PyStr(Char(x.s, i)) : i \in 1..Len(x.s)}
      [] OTHER -> {}

\* the orders in which a set may be iterated: a str set's order follows the
\* hash seed of the process
Orders(S) ==
    {seq \in [1..Cardinality(S) -> S] : \A e \in S : \E i \in 1..Cardinality(S) : seq[i] = e}

---------------------------------------------------------------------------
(* Difference records.                                                     *)

TypeMismatch(path, inferred, expected) ==
    PyDict(<<Entry("path", PyStr(path)), Entry("issue", PyStr("type_mismatch")),
             Entry("inferred", GetOr(inferred, "type", PyNone)),
             Entry("expected", GetOr(expected, "type", PyNone))>>)

MissingFormat(path, expected) ==
    PyDict(<<Entry("path", PyStr(path)), Entry("issue", PyStr("missing_format")),
             Entry("expected_format", Get(expected, "format"))>>)

FormatMismatch(path, inferred, expected) ==
    PyDict(<<Entry("path", PyStr(path)), Entry("issue", PyStr("format_mismatch")),
             Entry("inferred", Get(inferred, "format")),
             Entry("expected", Get(expected, "format"))>>)

MissingArrayConstraint(path, constraint, expected) ==
    PyDict(<<Entry("path", PyStr(path)),
             Entry("issue", PyStr("missing_array_constraint")),
             Entry("constraint", PyStr(constraint)),
             Entry("expected", Get(expected, constraint))>>)

RequiredFieldsMismatch(path, missing, extra) ==
    PyDict(<<Entry("path", PyStr(path)),
             Entry("issue", PyStr("required_fields_mismatch")),
             Entry("missing", PyList(missing)),
             Entry("extra", PyList(extra))>>)

MissingProperty(new_path, expected_props, prop) ==
    PyDict(<<Entry("path", PyStr(new_path)), Entry("issue", PyStr("missing_property")),
             Entry("expected", Get(expected_props, prop))>>)

ExtraProperty(new_path, inferred_props, prop) ==
    PyDict(<<Entry("path", PyStr(new_path)), Entry("issue", PyStr("extra_property")),
             Entry("inferred", Get(inferred_props, prop))>>)

\* the path of the record about an array's items
ItemsPath(path) == path \o ".items"

MissingMixedTypes(path, expected) ==
    PyDict(<<Entry("path", PyStr(ItemsPath(path))),
             Entry("issue", PyStr("missing_mixed_types")),
             Entry("expected", Get(Get(expected, "items"), "oneOf"))>>)

\* new_path = f"{path}.{prop}" if path else prop
NewPath(path, prop) == IF path # "" THEN path \o "." \o prop ELSE prop

---------------------------------------------------------------------------
(* _compare_schemas: compare_recursive as a machine of call frames.  A     *)
(* frame is one active call; pc names the check it performs next, todo the *)
(* property names its loop has still to visit.                             *)

Frame(inferred, expected, path) ==
    [inferred |-> inferred, expected |-> expected, path |-> path,
     pc |-> "enter", todo |-> <<>>]

Top == stack[Len(stack)]
Running == cmp_pc = "running" /\ Len(stack) > 0
At(pc) == Running /\ Top.pc = pc
Goto(pc) == [stack EXCEPT ![Len(stack)].pc = pc]
Popped == SubSeq(stack, 1, Len(stack) - 1)

TypeOf(node) == GetOr(node, "type", PyNone)

\* an exception leaves _compare_schemas
Throw(name) ==
    /\ cmp_pc' = "raised"
    /\ comparison' = Raise(name)
    /\ UNCHANGED <<differences, stack>>

restOfCompare == <<mode, inferred_schema, expected_schema, previous>>

\* _compare_schemas(inferred_schema, expected_schema) is called
CompareSchemas ==
    /\ mode \in {"compare", "rerun"}
    /\ cmp_pc = "idle"
    /\ differences' = <<>>
    /\ stack' = <<Frame(inferred_schema, expected_schema, "")>>
    /\ cmp_pc' = "running"
    /\ UNCHANGED <<comparison, previous>>
    /\ UNCHANGED <<mode, inferred_schema, expected_schema>>
    /\ UNCHANGED inferVars
    /\ UNCHANGED batchVars

\* _compare_schemas is called once more on the pair of the run before, whose
\* differences are kept for comparison
CompareAgain ==
    /\ mode = "rerun"
    /\ cmp_pc = "returned"
    /\ previous' = differences
    /\ differences' = <<>>
    /\ stack' = <<Frame(inferred_schema, expected_schema, "")>>
    /\ cmp_pc' = "running"
    /\ comparison' = Idle
    /\ UNCHANGED <<mode, inferred_schema, expected_schema>>
    /\ UNCHANGED inferVars
    /\ UNCHANGED batchVars

\* if isinstance(inferred, dict) and isinstance(expected, dict)
Enter ==
    /\ At("enter")
    /\ stack' = IF IsDict(Top.inferred) /\ IsDict(Top.expected)
                THEN Goto("type")
                ELSE Popped
    /\ UNCHANGED <<differences, cmp_pc, comparison>>
    /\ UNCHANGED restOfCompare
    /\ UNCHANGED inferVars
    /\ UNCHANGED batchVars

\* Compare types
CompareTypes ==
    /\ At("type")
    /\ differences' =
           IF ~PyEq(TypeOf(Top.inferred), TypeOf(Top.expected))
           THEN Append(differences, TypeMismatch(Top.path, Top.inferred, Top.expected))
           ELSE differences
    /\ stack' = Goto("format")
    /\ UNCHANGED <<cmp_pc, comparison>>
    /\ UNCHANGED restOfCompare
    /\ UNCHANGED inferVars
    /\ UNCHANGED batchVars

\* Compare string formats
CompareFormats ==
    /\ At("format")
    /\ differences' =
           IF PyEq(TypeOf(Top.expected), PyStr("string")) /\ Has(Top.expected, "format")
           THEN IF ~Has(Top.inferred, "format")
                THEN Append(differences, MissingFormat(Top.path, Top.expected))
                ELSE IF ~PyEq(Get(Top.inferred, "format"), Get(Top.expected, "format"))
                THEN Append(differences,
                            FormatMismatch(Top.path, Top.inferred, Top.expected))
                ELSE differences
           ELSE differences
    /\ stack' = Goto("constraints")
    /\ UNCHANGED <<cmp_pc, comparison>>
    /\ UNCHANGED restOfCompare
    /\ UNCHANGED inferVars
    /\ UNCHANGED batchVars

\* the constraint loop with two of its rounds exchanged
ConstraintsSwapped == <<"maxItems", "minItems", "uniqueItems">>

\* the list the constraint loop runs over
Constraints == <<"minItems", "maxItems", "uniqueItems">>

\* the records of the constraint loop from its i-th round on
RECURSIVE ConstraintRecords(_, _, _, _)
ConstraintRecords(path, inferred, expected, i) ==
    IF i > Len(Constraints) THEN <<>>
    ELSE (IF Has(expected, Constraints[i]) /\ ~Has(inferred, Constraints[i])
          THEN <<MissingArrayConstraint(path, Constraints[i], expected)>>
          ELSE <<>>)
         \o ConstraintRecords(path, inferred, expected, i + 1)

\* Compare array constraints
CompareConstraints ==
    /\ At("constraints")
    /\ differences' =
           IF PyEq(TypeOf(Top.expected), PyStr("array"))
           THEN differences \o ConstraintRecords(Top.path, Top.inferred, Top.expected, 1)
           ELSE differences
    /\ stack' = Goto("required")
    /\ UNCHANGED <<cmp_pc, comparison>>
    /\ UNCHANGED restOfCompare
    /\ UNCHANGED inferVars
    /\ UNCHANGED batchVars

\* Compare required fields
CompareRequired ==
    /\ At("required")
    /\ LET inferred_arg == GetOr(Top.inferred, "required", PyList(<<>>))
           expected_arg == GetOr(Top.expected, "required", PyList(<<>>))
           inferred_required == PySet(inferred_arg)
           expected_required == PySet(expected_arg)
       IN  IF SetRaises(inferred_arg) \/ SetRaises(expected_arg)
           THEN Throw("TypeError")
           ELSE /\ \E missing \in Orders(expected_required \ inferred_required),
                      extra \in Orders(inferred_required \ expected_required) :
                       differences' =
                           IF inferred_required # expected_required
                           THEN Append(differences,
                                       RequiredFieldsMismatch(Top.path, missing, extra))
                           ELSE differences
                /\ stack' = Goto("properties")
                /\ UNCHANGED <<cmp_pc, comparison>>
    /\ UNCHANGED restOfCompare
    /\ UNCHANGED inferVars
    /\ UNCHANGED batchVars

InferredProps(frame) == GetOr(frame.inferred, "properties", PyDict(<<>>))
ExpectedProps(frame) == GetOr(frame.expected, "properties", PyDict(<<>>))

\* for prop in set(inferred_props.keys()) | set(expected_props.keys()): the
\* union is built and its iteration order is fixed
StartProperties ==
    /\ At("properties")
    /\ IF ~IsDict(InferredProps(Top)) \/ ~IsDict(ExpectedProps(Top))
       THEN Throw("AttributeError")
       ELSE /\ \E order \in Orders(KeySet(InferredProps(Top)) \cup KeySet(ExpectedProps(Top))) :
                   stack' = [stack EXCEPT ![Len(stack)].pc = "property",
                                          ![Len(stack)].todo = order]
            /\ UNCHANGED <<differences, cmp_pc, comparison>>
    /\ UNCHANGED restOfCompare
    /\ UNCHANGED inferVars
    /\ UNCHANGED batchVars

\* one round of the property loop, or its end
CompareProperty ==
    /\ At("property")
    /\ IF Top.todo = <<>>
       THEN /\ stack' = Goto("items")
            /\ UNCHANGED differences
       ELSE LET prop == Head(Top.todo)
                new_path == NewPath(Top.path, prop)
                inferred_props == InferredProps(Top)
                expected_props == ExpectedProps(Top)
                rest == [stack EXCEPT ![Len(stack)].todo = Tail(Top.todo)]
            IN  IF Has(inferred_props, prop) /\ Has(expected_props, prop)
                THEN /\ stack' = Append(rest, Frame(Get(inferred_props, prop),
                                                    Get(expected_props, prop), new_path))
                     /\ UNCHANGED differences
                ELSE IF ~Has(inferred_props, prop)
                THEN /\ differences' =
                            Append(differences, MissingProperty(new_path, expected_props, prop))
                     /\ stack' = rest
                ELSE /\ differences' =
                            Append(differences, ExtraProperty(new_path, inferred_props, prop))
                     /\ stack' = rest
    /\ UNCHANGED <<cmp_pc, comparison>>
    /\ UNCHANGED restOfCompare
    /\ UNCHANGED inferVars
    /\ UNCHANGED batchVars

\* expected["items"]
ExpectedItems(frame) == Get(frame.expected, "items")

\* the inferred node itself, where its items are meant
InferredItemsForgotten(frame) == frame.inferred

\* inferred.get("items", {})
InferredItems(frame) == GetOr(frame.inferred, "items", PyDict(<<>>))

\* Compare array item types; the call then returns
CompareItems ==
    /\ At("items")
    /\ LET expected_items == ExpectedItems(Top)
           inferred_items == InferredItems(Top)
       IN  IF PyEq(TypeOf(Top.expected), PyStr("array")) /\ Has(Top.expected, "items")
           THEN IF InRaises(expected_items)
                THEN Throw("TypeError")
                ELSE IF ~PyIn("oneOf", expected_items)
                THEN /\ stack' = Popped
                     /\ UNCHANGED <<differences, cmp_pc, comparison>>
                ELSE IF InRaises(inferred_items)
                THEN Throw("TypeError")
                ELSE IF PyIn("oneOf", inferred_items)
                THEN /\ stack' = Popped
                     /\ UNCHANGED <<differences, cmp_pc, comparison>>
                ELSE IF ~IsDict(expected_items)
                THEN Throw("TypeError")
                ELSE /\ differences' = Append(differences,
                                              MissingMixedTypes(Top.path, Top.expected))
                     /\ stack' = Popped
                     /\ UNCHANGED <<cmp_pc, comparison>>
           ELSE /\ stack' = Popped
                /\ UNCHANGED <<differences, cmp_pc, comparison>>
    /\ UNCHANGED restOfCompare
    /\ UNCHANGED inferVars
    /\ UNCHANGED batchVars

\* return {"passed": len(differences) == 0, "differences": differences}
ReturnComparison ==
    /\ cmp_pc = "running"
    /\ stack = <<>>
    /\ comparison' = PyDict(<<Entry("passed", PyBool(Len(differences) = 0)),
                              Entry("differences", PyList(differences))>>)
    /\ cmp_pc' = "returned"
    /\ UNCHANGED <<differences, stack>>
    /\ UNCHANGED restOfCompare
    /\ UNCHANGED inferVars
    /\ UNCHANGED batchVars

CompareStep ==
    \/ Enter
    \/ CompareTypes
    \/ CompareFormats
    \/ CompareConstraints
    \/ CompareRequired
    \/ StartProperties
    \/ CompareProperty
    \/ CompareItems
    \/ ReturnComparison

---------------------------------------------------------------------------
(* Inputs of the differ: schema nodes as the inferrer and a reference file *)
(* write them, and documents that hold something else where a mapping is   *)
(* expected.                                                               *)

PropNames == <<"a", "b", "c", "d">>
Names == {PropNames[i] : i \in 1..MaxProps}

FormatNode(format) ==
    PyDict(<<Entry("type", PyStr("string")), Entry("format", PyStr(format))>>)

AllConstraints(unique) ==
    <<Entry("minItems", PyInt(1)), Entry("maxItems", PyInt(10)),
      Entry("uniqueItems", PyBool(unique))>>

ArrayNode(items, constraints) ==
    PyDict(<<Entry("type", PyStr("array")), Entry("items", items)>> \o constraints)

OneOf(types) ==
    PyDict(<<Entry("oneOf", PyList([i \in 1..Len(types) |-> TypeNode(types[i])]))>>)

\* the names of N in the order of PropNames
RECURSIVE Sorted(_, _)
Sorted(N, i) ==
    IF i > Len(PropNames) THEN <<>>
    ELSE (IF PropNames[i] \in N THEN <<PropNames[i]>> ELSE <<>>) \o Sorted(N, i + 1)

\* an object node with the properties child (a function on N) and the
\* required names
ObjectNode(N, child, required) ==
    LET names == Sorted(N, 1)
    IN  PyDict(<<Entry("type", PyStr("object")),
                 Entry("properties",
                       PyDict([i \in 1..Len(names) |-> Entry(names[i], child[names[i]])])),
                 Entry("required",
                       PyList([i \in 1..Len(required) |-> PyStr(required[i])]))>>)

\* the object nodes over Names with children of S, requiring all their
\* properties or none
ObjectsOf(S) ==
    UNION {UNION {{ObjectNode(N, child, Sorted(N, 1)), ObjectNode(N, child, <<>>)} :
                     child \in [N -> S]} : N \in SUBSET Names}

Placeholder == PyDict(<<>>)

LeafNodes ==
    {TypeNode("string"), TypeNode("integer"), FormatNode("email"), FormatNode("date"),
     Placeholder}

ItemNodes ==
    {Placeholder, TypeNode("integer"), TypeNode("string"), FormatNode("email"),
     OneOf(<<"integer", "string">>), OneOf(<<"string">>),
     ObjectNode({"a"}, [n \in {"a"} |-> TypeNode("string")], <<"a">>),
     ObjectNode({"a"}, [n \in {"a"} |-> TypeNode("integer")], <<>>)}

ArrayNodes == {ArrayNode(items, cons) : items \in ItemNodes,
                                        cons \in {<<>>, AllConstraints(TRUE)}}

NestedNodes ==
    {ObjectNode({"a"}, [n \in {"a"} |-> child], <<"a">>) :
        child \in {ObjectNode({"b"}, [n \in {"b"} |-> TypeNode("string")], <<"b">>),
                   ObjectNode({"b"}, [n \in {"b"} |-> FormatNode("email")], <<>>),
                   ArrayNode(OneOf(<<"integer", "string">>), <<>>),
                   ArrayNode(TypeNode("integer"), AllConstraints(FALSE)),
                   FormatNode("email")}}

\* documents with a value that is no mapping at the root, as a property's
\* schema, as the properties field or as the items field, or with a required
\* field that is no list
Malformed ==
    {PyNone, PyStr("oneOf"),
     PyDict(<<Entry("type", PyStr("object")), Entry("properties", PyNone)>>),
     PyDict(<<Entry("type", PyStr("object")), Entry("properties", PyList(<<>>))>>),
     PyDict(<<Entry("type", PyStr("object")),
              Entry("properties", PyDict(<<Entry("a", PyNone)>>))>>),
     PyDict(<<Entry("type", PyStr("object")),
              Entry("properties", PyDict(<<Entry("a", PyStr("string"))>>))>>),
     PyDict(<<Entry("type", PyStr("object")), Entry("required", PyNone)>>),
     ArrayNode(PyNone, <<>>),
     ArrayNode(PyStr("oneOf"), <<>>),
     ArrayNode(PyList(<<PyStr("oneOf")>>), <<>>),
     ArrayNode(PyList(<<>>), <<>>)}

\* an array node that also has a property named items
ItemsProperty(child, items) ==
    PyDict(<<Entry("type", PyStr("array")),
             Entry("properties", PyDict(<<Entry("items", child)>>)),
             Entry("items", items)>>)

OddNodes ==
    {ItemsProperty(TypeNode("string"), OneOf(<<"string">>)),
     ItemsProperty(ArrayNode(TypeNode("integer"), AllConstraints(TRUE)), Placeholder),
     ItemsProperty(ArrayNode(OneOf(<<"integer">>), <<>>), OneOf(<<"integer">>))}

WellFormed ==
    LeafNodes \cup ArrayNodes \cup ObjectsOf({TypeNode("string"), TypeNode("integer")})
        \cup NestedNodes \cup OddNodes

Nodes == WellFormed \cup Malformed

\* valid schema nodes of every type, nested
ValidLeaves ==
    {TypeNode(t) : t \in {"string", "integer", "number", "boolean", "null"}}
        \cup {FormatNode("email"), FormatNode("date")}

ValidArrays ==
    {ArrayNode(items, cons) :
        items \in {Placeholder, TypeNode("number"), FormatNode("date"),
                   OneOf(<<"integer", "string", "integer">>),
                   ArrayNode(OneOf(<<"boolean", "null">>), <<>>),
                   ObjectNode({"a"}, [n \in {"a"} |-> TypeNode("null")], <<"a">>)},
        cons \in {<<>>, AllConstraints(TRUE), AllConstraints(FALSE)}}

ValidInner ==
    {TypeNode("boolean"), FormatNode("email"),
     ArrayNode(Placeholder, <<>>),
     ArrayNode(OneOf(<<"string", "null">>), <<>>),
     ArrayNode(TypeNode("integer"), AllConstraints(TRUE))}

ValidNested ==
    {ObjectNode({"a"}, [n \in {"a"} |-> inner], <<"a">>) :
        inner \in ObjectsOf({TypeNode("number")})}

ValidNodes == ValidLeaves \cup ValidArrays \cup ObjectsOf(ValidInner) \cup ValidNested

ComparePairs == (Nodes \X Nodes) \cup {<<s, s>> : s \in ValidNodes}

\* pairs whose comparison iterates sets of several names
RerunPairs == ObjectsOf({TypeNode("string")}) \X ObjectsOf({TypeNode("string"), TypeNode("integer")})

InitPairs(m, pairs) ==
    /\ mode = m
    /\ \E pair \in pairs : inferred_schema = pair[1] /\ expected_schema = pair[2]
    /\ json_data = Idle /\ infer_out = Idle
    /\ differences = <<>> /\ stack = <<>> /\ cmp_pc = "idle"
    /\ comparison = Idle /\ previous = NoPrevious
    /\ test_cases = <<>> /\ idx = 0 /\ results = <<>> /\ result = Idle
    /\ batch_pc = "idle"

Init == InitPairs("compare", ComparePairs)

Next == CompareSchemas \/ CompareStep

Spec == Init /\ [][Next]_vars

InitRerun == InitPairs("rerun", RerunPairs)

NextRerun == CompareSchemas \/ CompareAgain \/ CompareStep

SpecRerun == InitRerun /\ [][NextRerun]_vars

---------------------------------------------------------------------------
(* Claims about the differ.                                                *)

SchemaTypes == {"object", "array", "string", "integer", "number", "boolean", "null"}

\* x is a list of str
IsNameList(x) == x.k = "list" /\ \A i \in 1..Len(x.c) : x.c[i].k = "str"

\* the alternatives of an items node: a non-empty list of {type: T}
IsOneOf(node) ==
    /\ IsDict(node) /\ KeySet(node) = {"oneOf"}
    /\ Get(node, "oneOf").k = "list" /\ Len(Get(node, "oneOf").c) > 0
    /\ \A i \in 1..Len(Get(node, "oneOf").c) :
           LET alt == Get(node, "oneOf").c[i]
           IN  IsDict(alt) /\ KeySet(alt) = {"type"} /\ Get(alt, "type").k = "str"
                   /\ Get(alt, "type").s \in SchemaTypes

\* node is a Schema Node of the data model: a typed mapping whose fields
\* are those of its type and whose children are Schema Nodes
RECURSIVE IsSchemaNode(_)
IsSchemaNode(node) ==
    /\ IsDict(node)
    /\ Has(node, "type") /\ Get(node, "type").k = "str" /\ Get(node, "type").s \in SchemaTypes
    /\ Has(node, "format") =>
           Get(node, "type").s = "string" /\ Get(node, "format") \in {PyStr("email"), PyStr("date")}
    /\ Has(node, "properties") =>
           /\ Get(node, "type").s = "object"
           /\ IsDict(Get(node, "properties"))
           /\ \A key \in KeySet(Get(node, "properties")) :
                  IsSchemaNode(Get(Get(node, "properties"), key))
    /\ Has(node, "required") =>
           Get(node, "type").s = "object" /\ IsNameList(Get(node, "required"))
    /\ Has(node, "items") =>
           /\ Get(node, "type").s = "array"
           /\ \/ Get(node, "items") = Placeholder
              \/ IsOneOf(Get(node, "items"))
              \/ IsSchemaNode(Get(node, "items"))
    /\ \A c \in {"minItems", "maxItems"} :
           Has(node, c) => Get(node, "type").s = "array" /\ Get(node, c).k = "int"
    /\ Has(node, "uniqueItems") =>
           Get(node, "type").s = "array" /\ Get(node, "uniqueItems").k = "bool"

Passed == PyDict(<<Entry("passed", PyBool(TRUE)), Entry("differences", PyList(<<>>))>>)

\* C1: comparing a valid Schema Node with itself returns passed = true and
\* an empty differences list; no step of the comparison appends a record or
\* raises.
C1_SelfComparePasses ==
    (mode = "compare" /\ inferred_schema = expected_schema /\ IsSchemaNode(expected_schema)) =>
        /\ differences = <<>>
        /\ cmp_pc # "raised"
        /\ cmp_pc = "returned" => comparison = Passed

\* a self-comparison has returned for an object whose property is an array
\* with oneOf items
C1_Witness ==
    /\ mode = "compare" /\ cmp_pc = "returned"
    /\ inferred_schema = expected_schema
    /\ IsSchemaNode(expected_schema)
    /\ Has(expected_schema, "properties")
    /\ \E key \in KeySet(Get(expected_schema, "properties")) :
           LET child == Get(Get(expected_schema, "properties"), key)
           IN  Has(child, "items") /\ IsOneOf(Get(child, "items"))

RecPath(record) == Get(record, "path").s
RecIssue(record) == Get(record, "issue").s

IsPrefix(a, b) == Len(a) <= Len(b) /\ SubSeq(b, 1, Len(a)) = a

\* path q lies below the node at path p
IsUnder(p, q) ==
    IF p = "" THEN q # ""
    ELSE Len(q) > Len(p) /\ SubSeq(q, 1, Len(p) + 1) = p \o "."

\* the paths of the nodes some record lies at or below
CallPaths ==
    {""} \cup UNION {{SubSeq(RecPath(differences[n]), 1, i - 1) :
                         i \in {j \in 1..(Len(RecPath(differences[n])) + 1) :
                                   \/ j = Len(RecPath(differences[n])) + 1
                                   \/ Char(RecPath(differences[n]), j) = "."}} :
                     n \in 1..Len(differences)}

ConstraintRank(record) ==
    CASE Get(record, "constraint") = PyStr("minItems") -> 3
      [] Get(record, "constraint") = PyStr("maxItems") -> 4
      [] Get(record, "constraint") = PyStr("uniqueItems") -> 5

\* the place of a record among those of the call on the node at path p: 1
\* type_mismatch, 2 the format record, 3 to 5 the constraint records, 6
\* required_fields_mismatch, 7 a record of the property loop (the node's
\* own or one of a nested call), 8 missing_mixed_types; 0 for a record of
\* another call
Rank(p, record) ==
    IF RecIssue(record) = "missing_mixed_types" /\ RecPath(record) = p \o ".items" THEN 8
    ELSE IF RecPath(record) = p THEN
        CASE RecIssue(record) = "type_mismatch" -> 1
          [] RecIssue(record) \in {"missing_format", "format_mismatch"} -> 2
          [] RecIssue(record) = "missing_array_constraint" -> ConstraintRank(record)
          [] RecIssue(record) = "required_fields_mismatch" -> 6
          [] OTHER -> 0
    ELSE IF IsUnder(p, RecPath(record)) THEN 7
    ELSE 0

\* the records of every call stand in the order of its checks, each check
\* but the property loop with at most one record
RecordsInOrder ==
    \A p \in CallPaths :
        \A i \in 1..Len(differences) : \A j \in (i + 1)..Len(differences) :
            LET ri == Rank(p, differences[i])
                rj == Rank(p, differences[j])
            IN  (ri # 0 /\ rj # 0) => (ri < rj \/ (ri = 7 /\ rj = 7))

\* C8: the records of one compare_recursive call are appended in the order
\* type_mismatch, format record, missing_array_constraint (minItems,
\* maxItems, uniqueItems), required_fields_mismatch, the records of its
\* properties, missing_mixed_types; and a record once appended is never
\* removed or moved.
C8_FixedOrderAppendOnly ==
    /\ [](mode = "compare" => RecordsInOrder)
    /\ [][(mode = "compare" /\ cmp_pc = "running") => IsPrefix(differences, differences')]_vars

\* a comparison has returned whose root call appended a type_mismatch, a
\* required_fields_mismatch, a property record and a missing_mixed_types
C8_Witness ==
    /\ mode = "compare" /\ cmp_pc = "returned"
    /\ Len(differences) >= 4
    /\ \E i, j, m, n \in 1..Len(differences) :
           /\ i < j /\ j < m /\ m < n
           /\ Rank("", differences[i]) = 1
           /\ Rank("", differences[j]) = 6
           /\ Rank("", differences[m]) = 7
           /\ Rank("", differences[n]) = 8

\* a path is empty or names separated by single dots
PathWellFormed(q) ==
    \/ q = ""
    \/ /\ Char(q, 1) # "."
       /\ Char(q, Len(q)) # "."
       /\ \A i \in 1..(Len(q) - 1) : ~(Char(q, i) = "." /\ Char(q, i + 1) = ".")

\* C9: the path of every record is the dot-joined names from the root to
\* the node, with items for an array's items node: empty at the root, with
\* no leading dot and no empty segment.
C9_PathsDotJoined ==
    mode = "compare" => \A i \in 1..Len(differences) : PathWellFormed(RecPath(differences[i]))

\* the fields of a node other than items
WithoutItems(node) == {node.c[i] : i \in {j \in 1..Len(node.c) : node.c[j].key # "items"}}

\* two array nodes with items mappings that agree in every other field
ArraysApartFromItems(inferred, expected) ==
    /\ IsDict(inferred) /\ IsDict(expected)
    /\ TypeOf(inferred) = PyStr("array") /\ TypeOf(expected) = PyStr("array")
    /\ Has(inferred, "items") /\ Has(expected, "items")
    /\ IsDict(Get(inferred, "items")) /\ IsDict(Get(expected, "items"))
    /\ WithoutItems(inferred) = WithoutItems(expected)

\* C10: the comparison of two array nodes never looks inside items: if they
\* differ only there, the only record is a missing_mixed_types when the
\* expected items have oneOf and the inferred items have none, and
\* otherwise there is no record and passed is true.
C10_ItemsNotCompared ==
    (mode = "compare" /\ cmp_pc = "returned"
        /\ ArraysApartFromItems(inferred_schema, expected_schema)) =>
        IF Has(Get(expected_schema, "items"), "oneOf")
               /\ ~Has(Get(inferred_schema, "items"), "oneOf")
        THEN /\ Len(differences) = 1
             /\ RecIssue(differences[1]) = "missing_mixed_types"
             /\ Get(differences[1], "expected") = Get(Get(expected_schema, "items"), "oneOf")
             /\ Get(comparison, "passed") = PyBool(FALSE)
        ELSE comparison = Passed

\* two arrays whose items differ in type, format, properties, required or
\* alternatives have been compared and passed
C10_Witness ==
    /\ mode = "compare" /\ cmp_pc = "returned"
    /\ ArraysApartFromItems(inferred_schema, expected_schema)
    /\ Get(inferred_schema, "items") # Get(expected_schema, "items")
    /\ Has(Get(expected_schema, "items"), "properties")
    /\ Has(Get(inferred_schema, "items"), "properties")
    /\ comparison = Passed

\* every required field of the document is a list of names
RECURSIVE RequiredAreLists(_)
RequiredAreLists(x) ==
    IF x.k = "dict"
    THEN /\ Has(x, "required") => IsNameList(Get(x, "required"))
         /\ \A i \in 1..Len(x.c) : RequiredAreLists(x.c[i].val)
    ELSE IF x.k = "list" THEN \A i \in 1..Len(x.c) : RequiredAreLists(x.c[i])
    ELSE TRUE

\* C5: a value that is no mapping, at the root, as a property's schema, as
\* the properties field or as the items field, only has its subtree
\* skipped: the call completes without raising (and a root that is no
\* mapping yields no record).
C5_NonMappingSkipped ==
    (mode = "compare" /\ RequiredAreLists(inferred_schema)
        /\ RequiredAreLists(expected_schema)) =>
        /\ cmp_pc # "raised"
        /\ (~IsDict(inferred_schema) \/ ~IsDict(expected_schema)) => differences = <<>>

\* C7: every run of _compare_schemas on one pair of schemas returns the
\* same ordered differences list, whatever the order in which the sets of
\* property names and required names are iterated.
C7_RunsAgree ==
    (mode = "rerun" /\ cmp_pc = "returned" /\ previous # NoPrevious) =>
        differences = previous

---------------------------------------------------------------------------
(* process_test_cases.                                                     *)

\* d[key] = val
SetKey(d, key, val) ==
    IF Has(d, key)
    THEN PyDict([i \in 1..Len(d.c) |-> IF d.c[i].key = key THEN Entry(key, val) ELSE d.c[i]])
    ELSE PyDict(Append(d.c, Entry(key, val)))

\* what _validate_schema may return for {"schema": schema, "data": instance}:
\* False for a falsy schema or instance, else the verdict of
\* jsonschema.validate, which the model leaves open
ValidateOutcomes(schema, instance) ==
    IF ~Truthy(schema) \/ ~Truthy(instance)
    THEN {PyBool(FALSE)}
    ELSE {PyBool(TRUE), PyBool(FALSE)}

BatchInputs ==
    {PyInt(1), PyStr("a@b"), PyStr("7"),
     PyDict(<<Entry("a", PyInt(1))>>), PyList(<<PyInt(1), PyFloat(5)>>)}

BatchExpected ==
    {ObjectNode({"a"}, [n \in {"a"} |-> TypeNode("integer")], <<"a">>),
     TypeNode("string"),
     PyDict(<<Entry("type", PyStr("object")), Entry("properties", PyNone)>>)}

\* a test case record: id and input_data, with or without expected_schema
TestCase(id, input_data) ==
    PyDict(<<Entry("id", PyInt(id)), Entry("input_data", input_data)>>)

TestCaseExpecting(id, input_data, expected) ==
    PyDict(<<Entry("id", PyInt(id)), Entry("input_data", input_data),
             Entry("expected_schema", expected)>>)

TestCasesAt(id) ==
    {TestCase(id, v) : v \in BatchInputs}
        \cup {TestCaseExpecting(id, v, e) : v \in BatchInputs, e \in BatchExpected}

\* the files of one to MaxBatch test cases, numbered in order
Batches ==
    UNION {{cases \in [1..len -> UNION {TestCasesAt(i) : i \in 1..len}] :
               \A i \in 1..len : cases[i] \in TestCasesAt(i)} : len \in 1..MaxBatch}

InitBatch ==
    /\ mode = "batch"
    /\ test_cases \in Batches
    /\ idx = 1 /\ results = <<>> /\ result = Idle /\ batch_pc = "loop"
    /\ json_data = Idle /\ infer_out = Idle
    /\ inferred_schema = Idle /\ expected_schema = Idle
    /\ differences = <<>> /\ stack = <<>> /\ cmp_pc = "idle"
    /\ comparison = Idle /\ previous = NoPrevious

\* one round of the loop up to the comparison: the result dict, the
\* inference, json.loads of its text, the validation, and either the call of
\* _compare_schemas or results.append
ProcessTestCase ==
    /\ mode = "batch" /\ batch_pc = "loop" /\ idx <= Len(test_cases)
    /\ LET test_case == test_cases[idx]
           input_data == Get(test_case, "input_data")
           text == _infer_json_schema(input_data)
           schema == JsonLoads(text)
           first == PyDict(<<Entry("test_case_id", GetOr(test_case, "id", PyNone)),
                             Entry("input_data", GetOr(test_case, "input_data", PyNone))>>)
       IN  /\ json_data' = input_data
           /\ infer_out' = text
           /\ IF IsRaise(schema)
              THEN /\ batch_pc' = "raised"
                   /\ result' = first
                   /\ UNCHANGED <<idx, results>>
                   /\ UNCHANGED cmpVars
              ELSE \E validation_result \in ValidateOutcomes(schema, input_data) :
                       LET validated ==
                               SetKey(SetKey(first, "inferred_schema", schema),
                                      "validation_success", validation_result)
                       IN  /\ result' = validated
                           /\ IF Has(test_case, "expected_schema")
                              THEN /\ inferred_schema' = schema
                                   /\ expected_schema' = Get(test_case, "expected_schema")
                                   /\ differences' = <<>>
                                   /\ stack' = <<Frame(schema,
                                                       Get(test_case, "expected_schema"), "")>>
                                   /\ cmp_pc' = "running"
                                   /\ comparison' = Idle
                                   /\ batch_pc' = "comparing"
                                   /\ UNCHANGED <<idx, results, previous>>
                              ELSE /\ results' = Append(results, validated)
                                   /\ idx' = idx + 1
                                   /\ UNCHANGED batch_pc
                                   /\ UNCHANGED cmpVars
    /\ UNCHANGED <<mode, test_cases>>

\* the round after _compare_schemas has returned: schema_comparison,
\* test_passed, results.append
StoreComparison ==
    /\ mode = "batch" /\ batch_pc = "comparing" /\ cmp_pc = "returned"
    /\ LET compared ==
               SetKey(SetKey(result, "schema_comparison", comparison),
                      "test_passed", Get(comparison, "passed"))
       IN  /\ result' = compared
           /\ results' = Append(results, compared)
    /\ idx' = idx + 1
    /\ batch_pc' = "loop"
    /\ cmp_pc' = "idle"
    /\ UNCHANGED <<mode, test_cases>>
    /\ UNCHANGED <<inferred_schema, expected_schema, differences, stack, comparison, previous>>
    /\ UNCHANGED inferVars

\* an exception of _compare_schemas leaves process_test_cases
ComparisonRaised ==
    /\ mode = "batch" /\ batch_pc = "comparing" /\ cmp_pc = "raised"
    /\ batch_pc' = "raised"
    /\ UNCHANGED <<mode, test_cases, idx, results, result>>
    /\ UNCHANGED cmpVars
    /\ UNCHANGED inferVars

\* return results
ReturnResults ==
    /\ mode = "batch" /\ batch_pc = "loop" /\ idx > Len(test_cases)
    /\ batch_pc' = "returned"
    /\ UNCHANGED <<mode, test_cases, idx, results, result>>
    /\ UNCHANGED cmpVars
    /\ UNCHANGED inferVars

NextBatch ==
    \/ ProcessTestCase
    \/ CompareStep
    \/ StoreComparison
    \/ ComparisonRaised
    \/ ReturnResults

SpecBatch == InitBatch /\ [][NextBatch]_vars

\* the inference of this test case's input_data fails
InferenceFails(test_case) == _infer_json_schema(Get(test_case, "input_data")) = ErrorText

\* C6: a test case whose inference fails does not stop the batch:
\* process_test_cases processes every other test case and returns a result
\* for each of them.
C6_FailureStaysLocal ==
    (mode = "batch" /\ batch_pc \in {"returned", "raised"} /\ cmp_pc # "raised"
        /\ \E i \in 1..Len(test_cases) : ~InferenceFails(test_cases[i])) =>
        /\ batch_pc = "returned"
        /\ \A i \in 1..Len(test_cases) :
               ~InferenceFails(test_cases[i]) =>
                   \E n \in 1..Len(results) :
                       Get(results[n], "test_case_id") = Get(test_cases[i], "id")

====
